---------------------------- MODULE Spec2Model ----------------------------
(***************************************************************************)
(* A model of script.py: the sitemap aggregator that fetches publisher     *)
(* sitemaps, builds fixed-width spreadsheet rows of new URLs and later     *)
(* audits them.                                                            *)
(*                                                                         *)
(*   Spec       the Row Builder (script.py 428-496) over a registry        *)
(*   SpecFetch  one call of safe_request or fetch_xml_root (56-101)        *)
(*   SpecAgg    the registry being built by the publisher adapters and    *)
(*              the gallery pre-fetch (107-423)                            *)
(*   SpecFn     one call of a generic extractor on any document (107-148)  *)
(*   SpecAudit  the audit phase over any stored sheet (504-582)            *)
(*   SpecPhases the two phases that call the store: Spec or SpecAudit      *)
(***************************************************************************)
EXTENDS Integers, Sequences, FiniteSets, TLC

VARIABLES
    \* ---- Row Builder (script.py 428-496)
    companies,          \* registry: per publisher <<nota_list, video_list>>
    gallery_urls_map,   \* per gallery source: its gallery URL list
    used_urls,          \* URLs already emitted in this run
    ct,                 \* index of the running pass in content_types
    i,                  \* row position of the running pass (0-based as in the code)
    k,                  \* next source of the row under construction (1-based)
    row,                \* cells of the row under construction
    any_url,            \* whether a group of this row emitted a URL
    built,              \* every finished row, in order; offered: passed to append_row
    sheet,              \* rows the store holds (calls that did not raise)
    rb_pc,              \* where the Row Builder is
    \* ---- HTTP helpers (script.py 56-101)
    call,               \* the helper called: "safe_request" or "fetch_xml_root"
    retries,            \* its `retries` argument
    sr_retries,         \* `retries` of the running safe_request call
    sr_log,             \* outcome of every requests.get of that call, in order
    sr_result,          \* what that call returned
    sr_pc,              \* "idle", "running", "returned" or "raised"
    http_log,           \* outcome of every requests.get since the helper was called
    fx_cycles,          \* the fetch->decompress->parse cycles of fetch_xml_root
    fx_result,          \* what fetch_xml_root returned
    fx_pc,              \* "idle", "running", "fetching", "returned" or "raised"
    \* ---- Aggregation (script.py 285-423)
    agg_pc,             \* "idle", "companies", "galleries", "built" or "aborted"
    agg_error,          \* the exception the last failing adapter call raised, or ""
    gal_result,         \* (normal, gallery) of the last extract_gallery_urls call
    net_served,         \* document entries the network has served so far
    net_last,           \* what the fetches of the last adapter call gave
    \* ---- One call of a generic extractor (script.py 107-148)
    fn_call,            \* the function called and its arguments
    fn_result,          \* what the call returned, or the exception it raised
    fn_pc,              \* "idle", "called", "returned" or "raised"
    \* ---- Audit phase (script.py 516-582)
    all_rows,           \* the snapshot sheet.get_all_values() gave
    row_idx,            \* row under examination (1-based as in the code)
    grp,                \* group under examination (g of the code, 0-based)
    attempt,            \* attempts the running run_lighthouse call has made
    metrics,            \* what the last run_lighthouse call returned
    lh_log,             \* tool invocations and sleeps of the phase, in order
    updates,            \* every update_cell call of the phase, in order
    faults,             \* external calls that failed so far
    au_pc               \* "idle", "loop", "scan", "lighthouse", "write" or "done"

rbVars == <<companies, gallery_urls_map, used_urls, ct, i, k, row, any_url,
            built, sheet, rb_pc>>

fetchVars == <<call, retries, sr_retries, sr_log, sr_result, sr_pc, http_log,
               fx_cycles, fx_result, fx_pc>>

aggVars == <<agg_pc, agg_error, gal_result, net_served, net_last>>

fnVars == <<fn_call, fn_result, fn_pc>>

auditVars == <<all_rows, row_idx, grp, attempt, metrics, lh_log, updates, faults, au_pc>>

vars == <<rbVars, fetchVars, aggVars, fnVars, auditVars>>

---------------------------------------------------------------------------
(* Bounds of the model *)

\* max_rows is 10 at script.py 429.  The model scales it down so that
\* sequences both shorter and longer than max_rows lie within MaxTotal.
max_rows == 2

\* Total number of URL entries the registry holds over all its sequences.
MaxTotal == 3

\* Largest `retries` argument a helper is called with (the defaults are 5).
MaxRetries == 3

\* Total number of entries (url, item, sitemap elements, text lines) of all
\* the documents the network serves while the registry is built.
MaxServed == 2

\* Largest number of entries of the document a generic extractor is called on.
MaxEntries == 3

\* Largest number of 9-cell groups of the snapshot the audit phase reads.
MaxGroups == 2

\* Largest number of external calls (tool runs, update_cell calls) that fail
\* in one audit phase.
MaxFaults == 3

\* The most URLs of the registry of a whole run (Row Builder, then audit).
MaxRunTotal == 2

---------------------------------------------------------------------------
(* HTTP helpers: safe_request and fetch_xml_root *)

\* Python's None, where a response, a payload or a root is expected.
None == [kind |-> "None"]

\* Bytes of a response body.  enc tells how the bytes are framed, body what
\* they hold once the framing is removed.
Encodings == {"plain", "gzip", "gzip_badcrc", "gzip_truncated", "gzip_corrupt"}
Bodies == {"xml", "garbage", "empty"}
Payloads == [enc : Encodings, body : Bodies]

NoContent == [enc |-> "plain", body |-> "empty"]

\* What one requests.get does: it raises, or it returns a response.
\* Only the body of a 200 response is ever read.
Outcomes(id) ==
    {[kind |-> "exception", id |-> id]}
    \cup {[kind |-> "response", id |-> id, status_code |-> 500, content |-> NoContent]}
    \cup {[kind |-> "response", id |-> id, status_code |-> 200, content |-> c] :
            c \in Payloads}

IsOk(outcome) == outcome.kind = "response" /\ outcome.status_code = 200

\* Variant of AttemptResult: any response is returned, whatever its status.
AttemptResult_AnyStatus(outcome) ==
    IF outcome.kind = "response" THEN "return" ELSE "retry"

\* Variant of AttemptResult: the try block has no except clause.
AttemptResult_ExceptionEscapes(outcome) ==
    IF outcome.kind = "exception" THEN "raise"
    ELSE IF outcome.status_code = 200 THEN "return" ELSE "retry"

\* The body of safe_request's loop: return on status 200; a non-200 status
\* and an exception (except Exception) are logged, then sleep and go on.
AttemptResult(outcome) ==
    IF outcome.kind = "exception" THEN "retry"
    ELSE IF outcome.status_code = 200 THEN "return" ELSE "retry"

\* One iteration of `for attempt in range(1, retries + 1)` of safe_request.
SafeRequestAttempt ==
    /\ sr_pc = "running"
    /\ Len(sr_log) < sr_retries
    /\ \E outcome \in Outcomes(Len(http_log) + 1) :
          /\ sr_log' = Append(sr_log, outcome)
          /\ http_log' = Append(http_log, outcome)
          /\ LET res == AttemptResult(outcome)
             IN  /\ sr_pc' = CASE res = "return" -> "returned"
                               [] res = "raise" -> "raised"
                               [] OTHER -> "running"
                 /\ sr_result' = IF res = "return" THEN outcome ELSE sr_result
    /\ UNCHANGED <<call, retries, sr_retries, fx_cycles, fx_result, fx_pc>>
    /\ UNCHANGED <<rbVars, aggVars, fnVars, auditVars>>

\* The loop is over: log the error and return None.
SafeRequestGiveUp ==
    /\ sr_pc = "running"
    /\ Len(sr_log) >= sr_retries
    /\ sr_pc' = "returned"
    /\ sr_result' = None
    /\ UNCHANGED <<call, retries, sr_retries, sr_log, http_log, fx_cycles, fx_result, fx_pc>>
    /\ UNCHANGED <<rbVars, aggVars, fnVars, auditVars>>

\* gzip.GzipFile(fileobj=io.BytesIO(data)).read(): the bytes unframed, or the
\* exception raised (CPython's gzip module).
Gunzip(data) ==
    CASE data = NoContent -> [kind |-> "ok", data |-> data]
      [] data.enc = "plain" /\ data # NoContent -> [kind |-> "raise", exc |-> "BadGzipFile"]
      [] data.enc = "gzip" -> [kind |-> "ok", data |-> [enc |-> "plain", body |-> data.body]]
      [] data.enc = "gzip_badcrc" -> [kind |-> "raise", exc |-> "BadGzipFile"]
      [] data.enc = "gzip_truncated" -> [kind |-> "raise", exc |-> "EOFError"]
      [] data.enc = "gzip_corrupt" -> [kind |-> "raise", exc |-> "zlib.error"]

\* `except (OSError, gzip.BadGzipFile)`: BadGzipFile is a subclass of OSError;
\* EOFError and zlib.error are not.
CaughtByGzipExcept(exc) == exc \in {"OSError", "BadGzipFile"}

\* etree.fromstring(data): the root element, or None for a syntax error
\* (caught by `except Exception`).
ParseXml(data) ==
    IF data.enc = "plain" /\ data.body = "xml"
    THEN [tag |-> "root", of |-> data]
    ELSE None

\* Variant of CycleResult: a parse failure ends the call (only the fetch is
\* retried).
CycleResult_ParseNotRetried(resp) ==
    IF resp = None
    THEN [kind |-> "retry", resp |-> resp, data |-> None, root |-> None]
    ELSE LET unz == Gunzip(resp.content)
         IN  IF unz.kind = "raise" /\ ~CaughtByGzipExcept(unz.exc)
             THEN [kind |-> "raise", resp |-> resp, data |-> None, root |-> None]
             ELSE LET data == IF unz.kind = "ok" THEN unz.data ELSE resp.content
                  IN  [kind |-> "return", resp |-> resp, data |-> data,
                       root |-> ParseXml(data)]

\* The body of fetch_xml_root's loop once safe_request has returned resp:
\* what the cycle ends in, the bytes given to the parser and the root parsed.
CycleResult(resp) ==
    IF resp = None
    THEN [kind |-> "retry", resp |-> resp, data |-> None, root |-> None]
    ELSE LET unz == Gunzip(resp.content)
         IN  IF unz.kind = "raise" /\ ~CaughtByGzipExcept(unz.exc)
             THEN [kind |-> "raise", resp |-> resp, data |-> None, root |-> None]
             ELSE LET data == IF unz.kind = "ok" THEN unz.data ELSE resp.content
                      root == ParseXml(data)
                  IN  [kind |-> IF root # None THEN "return" ELSE "retry",
                       resp |-> resp, data |-> data, root |-> root]

\* `retries` of the safe_request call inside fetch_xml_root.
InnerRetries == 1

\* An iteration of `for attempt in range(1, retries + 1)` of fetch_xml_root
\* begins: resp = safe_request(url, retries=1, delay=0).
FetchCycleStart ==
    /\ fx_pc = "running"
    /\ Len(fx_cycles) < retries
    /\ fx_pc' = "fetching"
    /\ sr_pc' = "running"
    /\ sr_retries' = InnerRetries
    /\ sr_log' = <<>>
    /\ sr_result' = None
    /\ UNCHANGED <<call, retries, http_log, fx_cycles, fx_result>>
    /\ UNCHANGED <<rbVars, aggVars, fnVars, auditVars>>

\* safe_request is back: decompress, parse, return the root or sleep and go on.
FetchCycleFinish ==
    /\ fx_pc = "fetching"
    /\ sr_pc \in {"returned", "raised"}
    /\ LET res == IF sr_pc = "raised"
                  THEN [kind |-> "raise", resp |-> None, data |-> None, root |-> None]
                  ELSE CycleResult(sr_result)
       IN  /\ fx_cycles' = Append(fx_cycles,
                                  [ended |-> res.kind, resp |-> res.resp,
                                   data |-> res.data, root |-> res.root,
                                   requests |-> Len(sr_log)])
           /\ fx_pc' = CASE res.kind = "return" -> "returned"
                         [] res.kind = "raise" -> "raised"
                         [] OTHER -> "running"
           /\ fx_result' = IF res.kind = "return" THEN res.root ELSE fx_result
    /\ sr_pc' = "idle"
    /\ UNCHANGED <<call, retries, sr_retries, sr_log, sr_result, http_log>>
    /\ UNCHANGED <<rbVars, aggVars, fnVars, auditVars>>

\* The loop is over: log the error and return None.
FetchGiveUp ==
    /\ fx_pc = "running"
    /\ Len(fx_cycles) >= retries
    /\ fx_pc' = "returned"
    /\ fx_result' = None
    /\ UNCHANGED <<call, retries, sr_retries, sr_log, sr_result, sr_pc, http_log, fx_cycles>>
    /\ UNCHANGED <<rbVars, aggVars, fnVars, auditVars>>

\* No helper is running.
FetchIdle ==
    /\ call = "none"
    /\ retries = 0
    /\ sr_retries = 0
    /\ sr_log = <<>>
    /\ sr_result = None
    /\ sr_pc = "idle"
    /\ http_log = <<>>
    /\ fx_cycles = <<>>
    /\ fx_result = None
    /\ fx_pc = "idle"

\* A helper has just been called with some `retries`.
FetchInit ==
    /\ call \in {"safe_request", "fetch_xml_root"}
    /\ retries \in 0..MaxRetries
    /\ sr_retries = IF call = "safe_request" THEN retries ELSE 0
    /\ sr_log = <<>>
    /\ sr_result = None
    /\ sr_pc = IF call = "safe_request" THEN "running" ELSE "idle"
    /\ http_log = <<>>
    /\ fx_cycles = <<>>
    /\ fx_result = None
    /\ fx_pc = IF call = "fetch_xml_root" THEN "running" ELSE "idle"

---------------------------------------------------------------------------
(* Text: a string is a sequence of atoms, each standing for a piece of text *)
(* ("h" a scheme and host, "video" the letters video, " " white space).     *)

RECURSIVE LStrip(_)
LStrip(t) == IF t # <<>> /\ Head(t) = " " THEN LStrip(Tail(t)) ELSE t

RECURSIVE RStrip(_)
RStrip(t) == IF t # <<>> /\ t[Len(t)] = " " THEN RStrip(SubSeq(t, 1, Len(t) - 1)) ELSE t

\* str.strip()
Strip(t) == RStrip(LStrip(t))

\* str.lower()
Lower(t) == [j \in 1..Len(t) |-> IF t[j] = "A" THEN "a" ELSE t[j]]

\* needle in t
Contains(t, needle) ==
    \E j \in 0..(Len(t) - Len(needle)) : SubSeq(t, j + 1, j + Len(needle)) = needle

\* any(n in t for n in needles)
ContainsAny(t, needles) == \E n \in 1..Len(needles) : Contains(t, needles[n])

StartsWith(t, prefix) == Len(prefix) <= Len(t) /\ SubSeq(t, 1, Len(prefix)) = prefix

EndsWith(t, suffix) ==
    Len(suffix) <= Len(t) /\ SubSeq(t, Len(t) - Len(suffix) + 1, Len(t)) = suffix

\* t.split("/")[-1]
RECURSIVE LastSegment(_)
LastSegment(t) ==
    IF t = <<>> \/ t[Len(t)] = "/" THEN <<>>
    ELSE Append(LastSegment(SubSeq(t, 1, Len(t) - 1)), t[Len(t)])

\* list(dict.fromkeys(seq)): the first occurrence of each element, in order.
RECURSIVE Dedup(_)
Dedup(seq) ==
    IF seq = <<>> THEN <<>>
    ELSE LET init == Dedup(SubSeq(seq, 1, Len(seq) - 1))
             last == seq[Len(seq)]
         IN  IF \E j \in 1..Len(init) : init[j] = last THEN init ELSE Append(init, last)

\* The needles the adapters look for.
VIDEO == <<"video">>
SLASH_VIDEO_SLASH == <<"/", "video", "/">>
SLASH_VIDEOS_SLASH == <<"/", "video", "s", "/">>
DASH_VIDEO == <<"-", "video">>
VIDEOS == <<"video", "s">>
VIDEOGALLERY == <<"video", "gallery">>
VIDEOGALERIA == <<"video", "galeria">>
NACIONALES == <<"/", "nacionales", "/">>
ENTRETENIMIENTO == <<"/", "entretenimiento", "/">>
AS_HOST == <<"h", "/">>
DASH_V_SLASH == <<"-", "v", "/">>
AS_BLOCKED == << <<"youtube.com">>, <<"prisad.com">>, <<".mp4">>, <<"vdmedia.as.com">> >>

---------------------------------------------------------------------------
(* Documents the network serves *)

\* Element text: <<>> for an element with no text (lxml's None), <<t>> else.
TextPool ==
    { <<"h", "/", "a">>,
      <<"h", "/", "video", "s", "/", "b", "-", "v", "/">>,
      <<"h", "/", "nacionales", "/", "entretenimiento", "/", "c">>,
      <<" ", "h", "/", "A">> }

OptText == {<<>>} \cup {<<t>> : t \in TextPool}

\* A <url> of a urlset, an <item> of a feed (loc is its <link>), a line of a
\* text listing or a fragment of an HTML page; images counts <image:image>.
Entries == [loc : OptText, images : {1, 2}]

\* The entries of a document whose image annotations no adapter reads.
PlainEntries == {e \in Entries : e.images = 1}

\* A <sitemap> of a sitemap index: loc and lastmod are <<>> when the element
\* is missing, <<text>> (text as above) when it is there.
LastmodPool == { <<"2", "0">>, <<"1", "9">>, <<"2">> }

IndexEntries ==
    [loc : {<<>>, << <<>> >>, << << <<"h", "/", "a">> >> >>, << << <<" ", "h", "/", "A">> >> >>},
     lastmod : {<<>>, << <<>> >>} \cup {<< <<d>> >> : d \in LastmodPool}]

\* The documents of at most n entries.
DocsUpTo(pool, n) == UNION {[1..m -> pool] : m \in 0..n}

\* What fetch_xml_root(url) gives: None, an exception raised while
\* decompressing, or the root of a document.
FetchXmlResults(pool, n) ==
    {[kind |-> "None", doc |-> <<>>], [kind |-> "raise", doc |-> <<>>]}
    \cup {[kind |-> "root", doc |-> d] : d \in DocsUpTo(pool, n)}

\* What safe_request(url) gives: None or a response.
SafeRequestResults(pool, n) ==
    {[kind |-> "None", doc |-> <<>>]}
    \cup {[kind |-> "resp", doc |-> d] : d \in DocsUpTo(pool, n)}

\* The same for an image sitemap; wellformed tells whether the content
\* parses as XML.
GalleryResponses(n) ==
    {[kind |-> "None", doc |-> <<>>, wellformed |-> FALSE]}
    \cup {[kind |-> "resp", doc |-> <<>>, wellformed |-> FALSE]}
    \cup {[kind |-> "resp", doc |-> d, wellformed |-> TRUE] : d \in DocsUpTo(Entries, n)}

\* What a call gives: a value, or the exception it raises.
Ok(v) == [ok |-> TRUE, val |-> v, exc |-> ""]
Raise(e) == [ok |-> FALSE, val |-> <<>>, exc |-> e]

---------------------------------------------------------------------------
(* Generic extractors (script.py 107-148) *)

NoFilter == <<>>

\* extract_urls_from_xml, given what fetch_xml_root(url) gave.
extract_urls_from_xml(fx, include, exclude) ==
    IF fx.kind = "raise" THEN Raise("EOFError")
    ELSE IF fx.kind = "None" THEN Ok(<<>>)
    ELSE IF \E j \in 1..Len(fx.doc) : fx.doc[j].loc = <<>> THEN Raise("AttributeError")
    ELSE LET urls == [j \in 1..Len(fx.doc) |-> Strip(fx.doc[j].loc[1])]
             inc == IF include # NoFilter
                    THEN SelectSeq(urls, LAMBDA u : ContainsAny(u, include))
                    ELSE urls
             exc == IF exclude # NoFilter
                    THEN SelectSeq(inc, LAMBDA u : ~ContainsAny(u, exclude))
                    ELSE inc
         IN  Ok(Dedup(exc))

\* resp.text.strip().splitlines(): the lines, without the blank lines at
\* both ends of the text.
RECURSIVE DropBlankHead(_)
DropBlankHead(lines) ==
    IF lines # <<>> /\ Strip(Head(lines)) = <<>> THEN DropBlankHead(Tail(lines)) ELSE lines

RECURSIVE DropBlankEnd(_)
DropBlankEnd(lines) ==
    IF lines # <<>> /\ Strip(lines[Len(lines)]) = <<>>
    THEN DropBlankEnd(SubSeq(lines, 1, Len(lines) - 1))
    ELSE lines

TextLines(doc) ==
    DropBlankEnd(DropBlankHead(
        [j \in 1..Len(doc) |-> IF doc[j].loc = <<>> THEN <<>> ELSE doc[j].loc[1]]))

\* extract_urls_from_txt, given what safe_request(txt_url) gave.
extract_urls_from_txt(resp, include, exclude) ==
    IF resp.kind = "None" THEN Ok(<<>>)
    ELSE LET texts == [j \in 1..Len(TextLines(resp.doc)) |-> Strip(TextLines(resp.doc)[j])]
             Keep(t) == /\ ~(exclude # NoFilter /\ ContainsAny(Lower(t), exclude))
                        /\ ~(include # NoFilter /\ ~ContainsAny(Lower(t), include))
         IN  Ok(Dedup(SelectSeq(texts, Keep)))

\* Order of characters, and of strings (Python compares strings character
\* by character; a proper prefix is smaller).
Ord(ch) == CASE ch = " " -> 32 [] ch = "-" -> 45 [] ch = "0" -> 48 [] ch = "1" -> 49
             [] ch = "2" -> 50 [] ch = "3" -> 51 [] ch = "4" -> 52 [] ch = "5" -> 53
             [] ch = "6" -> 54 [] ch = "7" -> 55 [] ch = "8" -> 56 [] ch = "9" -> 57
             [] OTHER -> 100

RECURSIVE StrLess(_, _)
StrLess(a, b) ==
    IF b = <<>> THEN FALSE
    ELSE IF a = <<>> THEN TRUE
    ELSE IF Ord(Head(a)) # Ord(Head(b)) THEN Ord(Head(a)) < Ord(Head(b))
    ELSE StrLess(Tail(a), Tail(b))

\* get_latest_sitemap, given what fetch_xml_root(index_url) gave: <<loc>> of
\* the first entry whose lastmod no entry exceeds (sorted is stable, also
\* with reverse=True), <<>> for None.
get_latest_sitemap(fx) ==
    IF fx.kind = "raise" THEN Raise("EOFError")
    ELSE IF fx.kind = "None" THEN Ok(<<>>)
    ELSE LET both == SelectSeq(fx.doc, LAMBDA e : e.loc # <<>> /\ e.lastmod # <<>>)
         IN  IF \E j \in 1..Len(both) : both[j].loc[1] = <<>> \/ both[j].lastmod[1] = <<>>
             THEN Raise("AttributeError")
             ELSE LET sitemaps == [j \in 1..Len(both) |->
                                     <<Strip(both[j].loc[1][1]), Strip(both[j].lastmod[1][1])>>]
                      best == CHOOSE j \in 1..Len(sitemaps) :
                                 /\ \A m \in 1..Len(sitemaps) : ~StrLess(sitemaps[j][2], sitemaps[m][2])
                                 /\ \A m \in 1..(j - 1) : StrLess(sitemaps[m][2], sitemaps[j][2])
                  IN  IF sitemaps = <<>> THEN Ok(<<>>) ELSE Ok(<<sitemaps[best][1]>>)

\* Truth value of what get_latest_sitemap returned: None and "" are false.
Truthy(opt) == opt # <<>> /\ opt[1] # <<>>

---------------------------------------------------------------------------
(* Brand-specific extractors (script.py 153-280, 387-406) *)

Pair(nota, video) == [nota |-> nota, video |-> video]

NoUrls == Pair(<<>>, <<>>)

milenio_is_video(url) ==
    \/ EndsWith(url, DASH_VIDEO)
    \/ Contains(url, SLASH_VIDEO_SLASH)
    \/ LastSegment(url) = VIDEO
    \/ Contains(url, VIDEOS)
    \/ Contains(url, VIDEOGALLERY)

get_milenio(fx) ==
    IF fx.kind = "raise" THEN Raise("EOFError")
    ELSE IF fx.kind = "None" THEN Ok(NoUrls)
    ELSE IF \E j \in 1..Len(fx.doc) : fx.doc[j].loc = <<>> THEN Raise("AttributeError")
    ELSE LET urls == [j \in 1..Len(fx.doc) |-> Lower(Strip(fx.doc[j].loc[1]))]
         IN  Ok(Pair(SelectSeq(urls, LAMBDA u : ~milenio_is_video(u)),
                     SelectSeq(urls, milenio_is_video)))

\* The <item> links get_as reads: `link is not None and link.text`.
ItemLinks(doc) ==
    LET withText == SelectSeq(doc, LAMBDA e : e.loc # <<>> /\ e.loc[1] # <<>>)
    IN  [j \in 1..Len(withText) |-> Strip(withText[j].loc[1])]

as_is_video(url) ==
    /\ StartsWith(url, AS_HOST)
    /\ Contains(url, SLASH_VIDEOS_SLASH)
    /\ EndsWith(url, DASH_V_SLASH)
    /\ ~ContainsAny(url, AS_BLOCKED)

get_as(fx_n, fx_v) ==
    IF fx_n.kind = "raise" \/ fx_v.kind = "raise" THEN Raise("EOFError")
    ELSE Ok(Pair(IF fx_n.kind = "None" THEN <<>> ELSE ItemLinks(fx_n.doc),
                 IF fx_v.kind = "None" THEN <<>>
                 ELSE SelectSeq(ItemLinks(fx_v.doc), as_is_video)))

\* re.findall(r"https?://www\.terra\.com\.mx[^\s\"<]+", text): per fragment of
\* the page, the host and the characters after it up to white space, when
\* there is at least one.
RECURSIVE UpToSpace(_)
UpToSpace(t) == IF t = <<>> \/ Head(t) = " " THEN <<>> ELSE <<Head(t)>> \o UpToSpace(Tail(t))

RECURSIVE FromHost(_)
FromHost(t) == IF t = <<>> \/ Head(t) = "h" THEN t ELSE FromHost(Tail(t))

TerraMatches(doc) ==
    LET frag == [j \in 1..Len(doc) |->
                    IF doc[j].loc = <<>> THEN <<>> ELSE UpToSpace(FromHost(doc[j].loc[1]))]
    IN  SelectSeq(frag, LAMBDA m : Len(m) >= 2)

get_terra(resp) ==
    IF resp.kind = "None" THEN Ok(NoUrls)
    ELSE LET all_urls == TerraMatches(resp.doc)
         IN  Ok(Pair(Dedup(SelectSeq(all_urls, LAMBDA u : Contains(u, NACIONALES))),
                     Dedup(SelectSeq(all_urls, LAMBDA u : Contains(u, ENTRETENIMIENTO)))))

\* Two calls in sequence; the first exception raised leaves the adapter.
Both(nota, video) ==
    IF ~nota.ok THEN nota
    ELSE IF ~video.ok THEN video
    ELSE Ok(Pair(nota.val, video.val))

get_nytimes(fx_news, fx_index, fx_video) ==
    LET nota == extract_urls_from_xml(fx_news, NoFilter, NoFilter)
        vid_index == get_latest_sitemap(fx_index)
    IN  IF ~nota.ok THEN nota
        ELSE IF ~vid_index.ok THEN vid_index
        ELSE Both(nota, IF Truthy(vid_index.val)
                        THEN extract_urls_from_xml(fx_video, NoFilter, NoFilter)
                        ELSE Ok(<<>>))

get_heraldo(fx_index, resp_nota, resp_video) ==
    LET index == get_latest_sitemap(fx_index)
    IN  IF ~index.ok THEN index
        ELSE IF ~Truthy(index.val) THEN Ok(NoUrls)
        ELSE Both(extract_urls_from_txt(resp_nota, NoFilter, <<VIDEO>>),
                  extract_urls_from_txt(resp_video, <<VIDEO>>, NoFilter))

get_infobae(fx_nota, fx_video) ==
    Both(extract_urls_from_xml(fx_nota, NoFilter, <<VIDEO>>),
         extract_urls_from_xml(fx_video, NoFilter, NoFilter))

universal_is_video(url) ==
    ContainsAny(Lower(url), <<SLASH_VIDEO_SLASH, SLASH_VIDEOS_SLASH, DASH_VIDEO, VIDEOGALERIA>>)

get_universal(fx) ==
    LET all_urls == extract_urls_from_xml(fx, NoFilter, NoFilter)
    IN  IF ~all_urls.ok THEN all_urls
        ELSE Ok(Pair(SelectSeq(all_urls.val, LAMBDA u : ~universal_is_video(u)),
                     SelectSeq(all_urls.val, universal_is_video)))

get_televisa(fx_nota, fx_video) ==
    Both(extract_urls_from_xml(fx_nota, NoFilter, NoFilter),
         extract_urls_from_xml(fx_video, NoFilter, NoFilter))

get_tvazteca(fx_nota, fx_video) ==
    Both(extract_urls_from_xml(fx_nota, NoFilter, <<VIDEO>>),
         extract_urls_from_xml(fx_video, NoFilter, NoFilter))

\* extract_gallery_urls, given what safe_request(sitemap_url) gave; the pair
\* is (normal, gallery).
extract_gallery_urls(resp) ==
    IF resp.kind = "None" THEN Ok(NoUrls)
    ELSE IF ~resp.wellformed THEN Raise("XMLSyntaxError")
    ELSE LET nodes == SelectSeq(resp.doc, LAMBDA e : e.loc # <<>>)
             Loc(e) == Strip(e.loc[1])
             normal == SelectSeq(nodes, LAMBDA e : ~(e.images > 1))
             gallery == SelectSeq(nodes, LAMBDA e : e.images > 1)
         IN  Ok(Pair([j \in 1..Len(normal) |-> Loc(normal[j])],
                     [j \in 1..Len(gallery) |-> Loc(gallery[j])]))

---------------------------------------------------------------------------
(* Aggregation: the companies map and the gallery pre-fetch (285-423) *)

\* The keys of the companies dict literal in evaluation order; "Azteca 7"
\* stands for the 22 entries built by get_tvazteca.
RegistryKeys == <<"Heraldo", "Televisa", "Milenio", "Universal", "As", "Infobae",
                  "NyTimes", "Terra", "Azteca 7">>

\* The keys of gallery_sitemaps.
gallery_sitemaps == <<"img.Azteca7", "img.AztecaUNO", "img.AztecaNoticias">>

\* Entries the network may still serve.
Left == MaxServed - net_served

NextKey == IF Len(companies) < Len(RegistryKeys) THEN RegistryKeys[Len(companies) + 1] ELSE ""

\* The entries of the documents a sequence of fetches gave.
RECURSIVE Served(_)
Served(fetched) ==
    IF fetched = <<>> THEN 0 ELSE Len(Head(fetched).doc) + Served(Tail(fetched))

\* The value of one entry of the dict literal is there, or the call raised:
\* nothing catches it, the script ends.
StoreCompany(result, fetched) ==
    /\ net_last' = fetched
    /\ IF result.ok
       THEN /\ companies' = Append(companies, <<result.val.nota, result.val.video>>)
            /\ agg_error' = agg_error
            /\ agg_pc' = IF Len(companies) + 1 = Len(RegistryKeys) THEN "galleries"
                         ELSE "companies"
       ELSE /\ companies' = companies
            /\ agg_error' = result.exc
            /\ agg_pc' = "aborted"
    /\ net_served' = net_served + Served(fetched)
    /\ UNCHANGED <<gallery_urls_map, gal_result>>
    /\ UNCHANGED <<used_urls, ct, i, k, row, any_url, built, sheet, rb_pc>>
    /\ UNCHANGED <<fetchVars, fnVars, auditVars>>

CompanyHeraldo ==
    /\ agg_pc = "companies" /\ NextKey = "Heraldo"
    /\ \E fx \in FetchXmlResults(IndexEntries, Left) :
         \E r1 \in SafeRequestResults(PlainEntries, Left - Len(fx.doc)) :
           \E r2 \in SafeRequestResults(PlainEntries, Left - Len(fx.doc) - Len(r1.doc)) :
              StoreCompany(get_heraldo(fx, r1, r2), <<fx, r1, r2>>)

CompanyTelevisa ==
    /\ agg_pc = "companies" /\ NextKey = "Televisa"
    /\ \E fx1 \in FetchXmlResults(PlainEntries, Left) :
         \E fx2 \in FetchXmlResults(PlainEntries, Left - Len(fx1.doc)) :
            StoreCompany(get_televisa(fx1, fx2), <<fx1, fx2>>)

CompanyMilenio ==
    /\ agg_pc = "companies" /\ NextKey = "Milenio"
    /\ \E fx \in FetchXmlResults(PlainEntries, Left) :
          StoreCompany(get_milenio(fx), <<fx>>)

CompanyUniversal ==
    /\ agg_pc = "companies" /\ NextKey = "Universal"
    /\ \E fx \in FetchXmlResults(PlainEntries, Left) :
          StoreCompany(get_universal(fx), <<fx>>)

CompanyAs ==
    /\ agg_pc = "companies" /\ NextKey = "As"
    /\ \E fx1 \in FetchXmlResults(PlainEntries, Left) :
         \E fx2 \in FetchXmlResults(PlainEntries, Left - Len(fx1.doc)) :
            StoreCompany(get_as(fx1, fx2), <<fx1, fx2>>)

CompanyInfobae ==
    /\ agg_pc = "companies" /\ NextKey = "Infobae"
    /\ \E fx1 \in FetchXmlResults(PlainEntries, Left) :
         \E fx2 \in FetchXmlResults(PlainEntries, Left - Len(fx1.doc)) :
            StoreCompany(get_infobae(fx1, fx2), <<fx1, fx2>>)

CompanyNyTimes ==
    /\ agg_pc = "companies" /\ NextKey = "NyTimes"
    /\ \E fx1 \in FetchXmlResults(PlainEntries, Left) :
         \E fx2 \in FetchXmlResults(IndexEntries, Left - Len(fx1.doc)) :
           \E fx3 \in FetchXmlResults(PlainEntries, Left - Len(fx1.doc) - Len(fx2.doc)) :
              StoreCompany(get_nytimes(fx1, fx2, fx3), <<fx1, fx2, fx3>>)

CompanyTerra ==
    /\ agg_pc = "companies" /\ NextKey = "Terra"
    /\ \E resp \in SafeRequestResults(PlainEntries, Left) :
          StoreCompany(get_terra(resp), <<resp>>)

CompanyTvAzteca ==
    /\ agg_pc = "companies" /\ NextKey = "Azteca 7"
    /\ \E fx1 \in FetchXmlResults(PlainEntries, Left) :
         \E fx2 \in FetchXmlResults(PlainEntries, Left - Len(fx1.doc)) :
            StoreCompany(get_tvazteca(fx1, fx2), <<fx1, fx2>>)

\* One iteration of `for key, url in gallery_sitemaps.items()`: the call is
\* inside try/except, a failure stores [].
GalleryPrefetch ==
    /\ agg_pc = "galleries"
    /\ \E resp \in GalleryResponses(Left) :
         LET result == extract_gallery_urls(resp)
         IN  /\ gallery_urls_map' = Append(gallery_urls_map,
                                        IF result.ok THEN result.val.video ELSE <<>>)
             /\ gal_result' = IF result.ok THEN result.val ELSE gal_result
             /\ agg_error' = IF result.ok THEN agg_error ELSE result.exc
             /\ net_served' = net_served + Len(resp.doc)
             /\ net_last' = <<resp>>
    /\ agg_pc' = IF Len(gallery_urls_map) + 1 = Len(gallery_sitemaps) THEN "built" ELSE "galleries"
    /\ UNCHANGED <<companies, used_urls, ct, i, k, row, any_url, built, sheet, rb_pc>>
    /\ UNCHANGED <<fetchVars, fnVars, auditVars>>

\* The registry is not being built.
AggIdle ==
    /\ agg_pc = "idle"
    /\ agg_error = ""
    /\ gal_result = NoUrls
    /\ net_served = 0
    /\ net_last = <<>>

\* The script reaches the companies dict literal.
AggInit ==
    /\ agg_pc = "companies"
    /\ agg_error = ""
    /\ gal_result = NoUrls
    /\ net_served = 0
    /\ net_last = <<>>

---------------------------------------------------------------------------
(* The registry *)

\* The URLs the registry sequences hold.  The empty string is one of them:
\* an adapter yields it for a blank line or a white-space loc.
URLS == {"http://a", "http://b", ""}

\* The first publishers of the companies map and the first gallery source:
\* the registry order is the insertion order of the dict literals.
CompanyNames == <<"Heraldo", "Televisa">>
GalleryNames == <<"img.Azteca7">>

NumCompanies == Len(CompanyNames)
NumGalleries == Len(GalleryNames)

content_types == <<"nota", "video">>

today == "2026-11-04"

\* Registry slots: 2c-1 / 2c are publisher c's nota / video list, the slots
\* after them are the gallery lists.
NumSlots == 2 * NumCompanies + NumGalleries

SlotList(flat, s) ==
    LET mine == SelectSeq(flat, LAMBDA e : e[1] = s)
    IN  [j \in 1..Len(mine) |-> mine[j][2]]

---------------------------------------------------------------------------
(* Row Builder *)

Blank == [j \in 1..9 |-> ""]

EmittedGroup(content_type, url) == <<today, content_type, url>> \o [j \in 1..6 |-> ""]

\* The URL the code considers for row position pos: urls[pos] when in
\* range, else the last element when there is one (<<>> when there is none).
Candidate(urls, pos) ==
    IF pos < Len(urls) THEN <<urls[pos + 1]>>
    ELSE IF Len(urls) > 0 THEN <<urls[Len(urls)]>>
    ELSE <<>>

\* Variant of IsUnseen: the seen-check left out.
IsUnseen_NoCheck(url, used) == TRUE

\* The seen-check.
IsUnseen(url, used) == url \notin used

\* Variant of OfferGroup: a source with nothing to emit adds no cells, so the
\* groups after it shift left.
OfferGroup_NoBlankCells(urls, pos, content_type, used) ==
    LET cand == Candidate(urls, pos)
    IN  IF cand # <<>> /\ IsUnseen(cand[1], used)
        THEN [cells |-> EmittedGroup(content_type, cand[1]),
              used |-> used \cup {cand[1]},
              emitted |-> TRUE]
        ELSE [cells |-> <<>>, used |-> used, emitted |-> FALSE]

\* Variant of OfferGroup: past the end of the sequence the last element is
\* emitted again without the seen-check.
OfferGroup_RepeatUnchecked(urls, pos, content_type, used) ==
    LET cand == Candidate(urls, pos)
    IN  IF cand # <<>> /\ (pos >= Len(urls) \/ IsUnseen(cand[1], used))
        THEN [cells |-> EmittedGroup(content_type, cand[1]),
              used |-> used \cup {cand[1]},
              emitted |-> TRUE]
        ELSE [cells |-> Blank, used |-> used, emitted |-> FALSE]

\* Variant of OfferGroup: an emitted URL is not added to used_urls.
OfferGroup_NotMarked(urls, pos, content_type, used) ==
    LET cand == Candidate(urls, pos)
    IN  IF cand # <<>> /\ IsUnseen(cand[1], used)
        THEN [cells |-> EmittedGroup(content_type, cand[1]),
              used |-> used,
              emitted |-> TRUE]
        ELSE [cells |-> Blank, used |-> used, emitted |-> FALSE]

\* One source's group: [cells, used, emitted].
OfferGroup(urls, pos, content_type, used) ==
    LET cand == Candidate(urls, pos)
    IN  IF cand # <<>> /\ IsUnseen(cand[1], used)
        THEN [cells |-> EmittedGroup(content_type, cand[1]),
              used |-> used \cup {cand[1]},
              emitted |-> TRUE]
        ELSE [cells |-> Blank, used |-> used, emitted |-> FALSE]

RBInit ==
    /\ \E n \in 0..MaxTotal :
         \E flat \in [1..n -> (1..NumSlots) \X URLS] :
            /\ companies = [c \in 1..NumCompanies |->
                              <<SlotList(flat, 2 * c - 1), SlotList(flat, 2 * c)>>]
            /\ gallery_urls_map = [g \in 1..NumGalleries |->
                              SlotList(flat, 2 * NumCompanies + g)]
    /\ used_urls = {}
    /\ ct = 1
    /\ i = 0
    /\ k = 1
    /\ row = <<>>
    /\ any_url = FALSE
    /\ built = <<>>
    /\ sheet = <<>>
    /\ rb_pc = "companies"

\* One iteration of `for comp, (nota_list, video_list) in companies.items()`.
PublisherGroup ==
    /\ rb_pc = "companies"
    /\ LET urls == IF content_types[ct] = "nota" THEN companies[k][1] ELSE companies[k][2]
           g == OfferGroup(urls, i, content_types[ct], used_urls)
       IN  /\ row' = row \o g.cells
           /\ used_urls' = g.used
           /\ any_url' = (any_url \/ g.emitted)
    /\ IF k < NumCompanies
       THEN /\ k' = k + 1
            /\ rb_pc' = rb_pc
       ELSE /\ k' = 1
            /\ rb_pc' = "galleries"
    /\ UNCHANGED <<companies, gallery_urls_map, ct, i, built, sheet>>
    /\ UNCHANGED <<fetchVars, aggVars, fnVars, auditVars>>

\* One iteration of `for gal_key, galleries in gallery_urls_map.items()`.
GalleryGroup ==
    /\ rb_pc = "galleries"
    /\ LET g == OfferGroup(gallery_urls_map[k], i, "img", used_urls)
       IN  /\ row' = row \o g.cells
           /\ used_urls' = g.used
           /\ any_url' = (any_url \/ g.emitted)
    /\ IF k < NumGalleries
       THEN /\ k' = k + 1
            /\ rb_pc' = rb_pc
       ELSE /\ k' = 1
            /\ rb_pc' = "append"
    /\ UNCHANGED <<companies, gallery_urls_map, ct, i, built, sheet>>
    /\ UNCHANGED <<fetchVars, aggVars, fnVars, auditVars>>

\* Variant of ShouldAppend: every finished row is offered.
ShouldAppend_Always(cells, any) == TRUE

\* Whether the finished row is offered to the store.
ShouldAppend(cells, any) == any

\* Variant of AppendOutcome: the exception of append_row is not caught.
AppendOutcome_Escapes(ok) == IF ok THEN "appended" ELSE "raised"

\* `try: sheet.append_row(row) except Exception: log`: what becomes of an
\* offered row when the call returns (ok) or raises.
AppendOutcome(ok) == IF ok THEN "appended" ELSE "logged"

\* Variant of HasNextRow: one row position more.
HasNextRow_OneMore(pos) == pos < max_rows

\* `for i in range(max_rows)`: whether a row position follows pos.
HasNextRow(pos) == pos + 1 < max_rows

\* `if any_url: try: sheet.append_row(row) except: log`, then the loop
\* headers: the next row position, the next content type, or the end.
AppendRow ==
    /\ rb_pc = "append"
    /\ \E ok \in BOOLEAN :
         /\ ShouldAppend(row, any_url) \/ ok
         /\ LET outcome == IF ShouldAppend(row, any_url) THEN AppendOutcome(ok) ELSE "skipped"
            IN  /\ built' = Append(built, [content_type |-> content_types[ct], i |-> i,
                                           cells |-> row,
                                           offered |-> ShouldAppend(row, any_url),
                                           outcome |-> outcome])
                /\ sheet' = IF outcome = "appended" THEN Append(sheet, row) ELSE sheet
                /\ IF outcome = "raised"
                   THEN /\ i' = i
                        /\ ct' = ct
                        /\ rb_pc' = "aborted"
                   ELSE IF HasNextRow(i)
                   THEN /\ i' = i + 1
                        /\ ct' = ct
                        /\ rb_pc' = "companies"
                   ELSE IF ct < Len(content_types)
                   THEN /\ i' = 0
                        /\ ct' = ct + 1
                        /\ rb_pc' = "companies"
                   ELSE /\ i' = i
                        /\ ct' = ct
                        /\ rb_pc' = "done"
    /\ row' = <<>>
    /\ any_url' = FALSE
    /\ k' = 1
    /\ UNCHANGED <<companies, gallery_urls_map, used_urls>>
    /\ UNCHANGED <<fetchVars, aggVars, fnVars, auditVars>>

\* The Row Builder has not started (the registry is not built yet).
RBIdle ==
    /\ companies = <<>>
    /\ gallery_urls_map = <<>>
    /\ used_urls = {}
    /\ ct = 1
    /\ i = 0
    /\ k = 1
    /\ row = <<>>
    /\ any_url = FALSE
    /\ built = <<>>
    /\ sheet = <<>>
    /\ rb_pc = "idle"

---------------------------------------------------------------------------
(* One call of a generic extractor on any document (script.py 107-148) *)

\* Texts of a lastmod element: ISO dates, one of them with leading
\* white space, and a proper prefix of them.
DatePool ==
    { <<"2", "0", "2", "4", "-", "0", "1", "-", "0", "1">>,
      <<"2", "0", "2", "4", "-", "0", "3", "-", "0", "5">>,
      <<"2", "0", "2", "3", "-", "1", "2", "-", "3", "1">>,
      <<" ", "2", "0", "2", "4", "-", "0", "3", "-", "0", "5">>,
      <<"2", "0", "2", "4">> }

\* Texts of the loc element of a <sitemap>.
SitemapLocPool == { <<"A">>, <<"B">>, <<"C">>, <<" ", "A">> }

\* A <sitemap> of a sitemap index, as IndexEntries: <<>> for a missing
\* element, << <<>> >> for an element with no text.
SitemapEntries ==
    [loc : {<<>>, << <<>> >>} \cup {<< <<t>> >> : t \in SitemapLocPool},
     lastmod : {<<>>, << <<>> >>} \cup {<< <<d>> >> : d \in DatePool}]

\* A <url> of a urlset; one loc differs from another by white space only.
UrlsetEntries ==
    PlainEntries \cup {[loc |-> << <<"h", "/", "a", " ">> >>, images |-> 1]}

\* The include / exclude arguments: None, or a list of substrings.
FilterPool == {NoFilter, <<VIDEO>>, << <<"a">>, NACIONALES >>}

\* The calls: the function, what fetch_xml_root(url) gives it, the filters.
FnCalls ==
    [fn : {"get_latest_sitemap"}, fx : FetchXmlResults(SitemapEntries, MaxEntries),
     include : {NoFilter}, exclude : {NoFilter}]
    \cup
    [fn : {"extract_urls_from_xml"}, fx : FetchXmlResults(UrlsetEntries, MaxEntries),
     include : FilterPool, exclude : FilterPool]

\* No generic extractor is being called.
FnIdle ==
    /\ fn_call = None
    /\ fn_result = None
    /\ fn_pc = "idle"

\* A generic extractor has just been called.
FnInit ==
    /\ fn_call \in FnCalls
    /\ fn_result = None
    /\ fn_pc = "called"

\* The call of get_latest_sitemap runs to its end.
CallGetLatestSitemap ==
    /\ fn_pc = "called"
    /\ fn_call.fn = "get_latest_sitemap"
    /\ fn_result' = get_latest_sitemap(fn_call.fx)
    /\ fn_pc' = IF fn_result'.ok THEN "returned" ELSE "raised"
    /\ UNCHANGED fn_call
    /\ UNCHANGED <<rbVars, fetchVars, aggVars, auditVars>>

\* The call of extract_urls_from_xml runs to its end.
CallExtractUrlsFromXml ==
    /\ fn_pc = "called"
    /\ fn_call.fn = "extract_urls_from_xml"
    /\ fn_result' = extract_urls_from_xml(fn_call.fx, fn_call.include, fn_call.exclude)
    /\ fn_pc' = IF fn_result'.ok THEN "returned" ELSE "raised"
    /\ UNCHANGED fn_call
    /\ UNCHANGED <<rbVars, fetchVars, aggVars, auditVars>>

---------------------------------------------------------------------------
(* Audit phase: run_lighthouse and the Lighthouse loop (script.py 504-582) *)

\* Arguments of the run_lighthouse call at script.py 559, and the throttle.
lh_retries == 3
lh_delay == 2
throttle == 5

\* str.strip, str.lower and str.startswith("http") on the cell values above
\* and on the cells the Row Builder writes.
strip(cell) ==
    CASE cell = " Nota" -> "Nota"
      [] cell = "http://a " -> "http://a"
      [] cell = " " -> ""
      [] OTHER -> cell

lower(cell) == IF cell = "Nota" THEN "nota" ELSE cell

startswith_http(cell) == cell \in {"http://a", "http://a ", "http://b"}

\* The 9-cell groups a stored row is made of, by content-type, url and
\* score cell: two that the loop audits (cells with white space and upper
\* case among them), one already scored, one with a URL that is not http,
\* one with no URL, one of another content type.
GroupCells ==
    { <<" Nota", "http://a ", "">>,
      <<"img", "http://b", " ">>,
      <<"img", "http://b", "87">>,
      <<"img", "ftp://c", "">>,
      <<" Nota", "", "">>,
      <<"gallery", "http://a ", "">> }

GroupPool == {<<today, c[1], c[2], c[3], "", "", "", "", "">> : c \in GroupCells}

\* What extract_metrics makes of the report of a successful tool run.
extract_metrics == [score |-> "91", cls |-> "0.02", lcp |-> "2100",
                    si |-> "1800", tbt |-> "150", fcp |-> "900"]

\* `groups = len(row) // 9`
Groups(cells) == Len(cells) \div 9

\* Variant of IsCandidate: the score cell is not looked at.
IsCandidate_AnyScore(cells, gi) ==
    LET base == gi * 9
        content_type == lower(strip(cells[base + 2]))
        url == strip(cells[base + 3])
    IN  content_type \in {"nota", "video", "img"} /\ startswith_http(url)

\* The condition of the `if` at script.py 557 on group gi of a row.
IsCandidate(cells, gi) ==
    LET base == gi * 9
        content_type == lower(strip(cells[base + 2]))
        url == strip(cells[base + 3])
        score_cell == strip(cells[base + 4])
    IN  content_type \in {"nota", "video", "img"} /\ startswith_http(url) /\ score_cell = ""

\* The loop headers: the first group at or after (r, gi), or the end.
RECURSIVE Seek(_, _)
Seek(r, gi) ==
    IF r > Len(all_rows) THEN [row_idx |-> r, grp |-> 0, pc |-> "done"]
    ELSE IF gi < Groups(all_rows[r]) THEN [row_idx |-> r, grp |-> gi, pc |-> "scan"]
    ELSE Seek(r + 1, 0)

\* Entries of lh_log.
Invocation(r, base, url, ok) ==
    [ev |-> "lighthouse", row |-> r, base |-> base, url |-> url, ok |-> ok, secs |-> 0]

Sleep(secs) ==
    [ev |-> "sleep", row |-> 0, base |-> 0, url |-> "", ok |-> TRUE, secs |-> secs]

\* Variant of MoreAttempts: one attempt more than `retries`.
MoreAttempts_OneMore(done) == done <= lh_retries

\* `for attempt in range(retries)`
MoreAttempts(done) == done < lh_retries

\* Variant of AfterFailedAttempt: the except clause only logs.
AfterFailedAttempt_NoSleep == <<>>

\* The except clause of run_lighthouse: log, then time.sleep(delay).
AfterFailedAttempt == <<Sleep(lh_delay)>>

\* Variant of UpdateCalls: the columns counted from the url column.
UpdateCalls_FromUrlColumn(r, base, m) ==
    << <<r, base + 3, m.score>>, <<r, base + 4, m.cls>>, <<r, base + 5, m.lcp>>,
       <<r, base + 6, m.si>>, <<r, base + 7, m.tbt>>, <<r, base + 8, m.fcp>> >>

\* The update_cell calls of the write-back, in order: <<row, col, value>>.
UpdateCalls(r, base, m) ==
    << <<r, base + 4, m.score>>, <<r, base + 5, m.cls>>, <<r, base + 6, m.lcp>>,
       <<r, base + 7, m.si>>, <<r, base + 8, m.tbt>>, <<r, base + 9, m.fcp>> >>

\* The audit phase has not started.
AuditIdle ==
    /\ all_rows = <<>>
    /\ row_idx = 0
    /\ grp = 0
    /\ attempt = 0
    /\ metrics = None
    /\ lh_log = <<>>
    /\ updates = <<>>
    /\ faults = 0
    /\ au_pc = "idle"

\* `all_rows = sheet.get_all_values()` has returned: a rectangle of cells,
\* whose width need not be a multiple of 9.
AuditInit ==
    /\ \E height \in 0..MaxGroups : \E width \in 1..MaxGroups : \E extra \in 0..1 :
         /\ height * width <= MaxGroups
         /\ \E f \in [1..height -> [1..width -> GroupPool]] :
               all_rows = [r \in 1..height |->
                             [c \in 1..(9 * width + extra) |->
                                 IF c > 9 * width THEN "" ELSE f[r][(c + 8) \div 9][((c - 1) % 9) + 1]]]
    /\ row_idx = Seek(1, 0).row_idx
    /\ grp = Seek(1, 0).grp
    /\ au_pc = Seek(1, 0).pc
    /\ attempt = 0
    /\ metrics = None
    /\ lh_log = <<>>
    /\ updates = <<>>
    /\ faults = 0

\* The loop moves on to the group after (row_idx, grp).
Advance ==
    /\ row_idx' = Seek(row_idx, grp + 1).row_idx
    /\ grp' = Seek(row_idx, grp + 1).grp
    /\ au_pc' = Seek(row_idx, grp + 1).pc

\* A group the `if` at script.py 557 rejects.
SkipGroup ==
    /\ au_pc = "scan"
    /\ ~IsCandidate(all_rows[row_idx], grp)
    /\ Advance
    /\ UNCHANGED <<all_rows, attempt, metrics, lh_log, updates, faults>>
    /\ UNCHANGED <<rbVars, fetchVars, aggVars, fnVars>>

\* A group the `if` accepts: run_lighthouse(url, retries=3, delay=2) is called.
CallRunLighthouse ==
    /\ au_pc = "scan"
    /\ IsCandidate(all_rows[row_idx], grp)
    /\ au_pc' = "lighthouse"
    /\ attempt' = 0
    /\ UNCHANGED <<all_rows, row_idx, grp, metrics, lh_log, updates, faults>>
    /\ UNCHANGED <<rbVars, fetchVars, aggVars, fnVars>>

\* One iteration of the loop of run_lighthouse: the tool runs; either
\* extract_metrics returns (ok), or the tool fails or its report cannot be
\* read, and the except clause runs.
LighthouseAttempt ==
    /\ au_pc = "lighthouse"
    /\ MoreAttempts(attempt)
    /\ \E ok \in BOOLEAN :
         /\ ~ok => faults < MaxFaults
         /\ lh_log' = lh_log
                        \o <<Invocation(row_idx, grp * 9, strip(all_rows[row_idx][grp * 9 + 3]), ok)>>
                        \o (IF ok THEN <<>> ELSE AfterFailedAttempt)
         /\ faults' = IF ok THEN faults ELSE faults + 1
         /\ metrics' = IF ok THEN extract_metrics ELSE metrics
         /\ au_pc' = IF ok THEN "write" ELSE au_pc
    /\ attempt' = attempt + 1
    /\ UNCHANGED <<all_rows, row_idx, grp, updates>>
    /\ UNCHANGED <<rbVars, fetchVars, aggVars, fnVars>>

\* The loop of run_lighthouse ends: `return None`; the caller warns, sleeps
\* and moves on.
LighthouseGiveUp ==
    /\ au_pc = "lighthouse"
    /\ ~MoreAttempts(attempt)
    /\ metrics' = None
    /\ lh_log' = Append(lh_log, Sleep(throttle))
    /\ Advance
    /\ UNCHANGED <<all_rows, attempt, updates, faults>>
    /\ UNCHANGED <<rbVars, fetchVars, aggVars, fnVars>>

\* `if metrics: try: six update_cell calls except: log`, then the throttle
\* sleep: the first w calls return, the next one (if any) raises.
WriteBack ==
    /\ au_pc = "write"
    /\ LET calls == UpdateCalls(row_idx, grp * 9, metrics)
       IN  \E w \in 0..Len(calls) :
             /\ w < Len(calls) => faults < MaxFaults
             /\ updates' = updates \o
                   [j \in 1..(IF w < Len(calls) THEN w + 1 ELSE w) |->
                       [row |-> calls[j][1], col |-> calls[j][2],
                        value |-> calls[j][3], ok |-> j <= w]]
             /\ faults' = IF w < Len(calls) THEN faults + 1 ELSE faults
    /\ lh_log' = Append(lh_log, Sleep(throttle))
    /\ Advance
    /\ UNCHANGED <<all_rows, attempt, metrics>>
    /\ UNCHANGED <<rbVars, fetchVars, aggVars, fnVars>>

---------------------------------------------------------------------------
(* The whole run: the Row Builder, then the Lighthouse loop (427-582) *)

\* The index of the last non-empty cell of a row (0 when there is none).
LastFilled(cells) ==
    LET filled == {c \in 1..Len(cells) : cells[c] # ""}
    IN  IF filled = {} THEN 0 ELSE CHOOSE c \in filled : \A d \in filled : d <= c

\* `sheet.get_all_values()`: the rows of the store as lists of cell texts,
\* all of one width.  The store keeps no trailing empty cells of its own:
\* the width is that of the appended rows when something else on the sheet
\* fixes it (keep), else that of the longest row cut after its last
\* non-empty cell.
get_all_values(rows, keep) ==
    LET widths == {IF keep THEN Len(rows[r]) ELSE LastFilled(rows[r]) : r \in 1..Len(rows)}
        width == IF widths = {} THEN 0 ELSE CHOOSE w \in widths : \A v \in widths : v <= w
    IN  [r \in 1..Len(rows) |->
            [c \in 1..width |-> IF c <= Len(rows[r]) THEN rows[r][c] ELSE ""]]

\* The number of URLs of a tuple of sequences.
RECURSIVE TotalLen(_)
TotalLen(seqs) == IF seqs = <<>> THEN 0 ELSE Len(Head(seqs)) + TotalLen(Tail(seqs))

\* Variant of RowLoopOver: the audit may start while the last row waits to
\* be offered.
RowLoopOver_BeforeLastAppend(pc) == pc \in {"append", "done"}

\* The statements of the Lighthouse loop stand after the row loop in the
\* script: they run when the row loop has ended without an exception.
RowLoopOver(pc) == pc = "done"

\* `all_rows = sheet.get_all_values()` after the row loop.
GetAllValues ==
    /\ RowLoopOver(rb_pc)
    /\ au_pc = "idle"
    /\ \E keep \in BOOLEAN : all_rows' = get_all_values(sheet, keep)
    /\ au_pc' = "loop"
    /\ UNCHANGED <<row_idx, grp, attempt, metrics, lh_log, updates, faults>>
    /\ UNCHANGED <<rbVars, fetchVars, aggVars, fnVars>>

\* `for row_idx, row in enumerate(all_rows, start=1)`: the first group.
EnterLoop ==
    /\ au_pc = "loop"
    /\ row_idx' = Seek(1, 0).row_idx
    /\ grp' = Seek(1, 0).grp
    /\ au_pc' = Seek(1, 0).pc
    /\ UNCHANGED <<all_rows, attempt, metrics, lh_log, updates, faults>>
    /\ UNCHANGED <<rbVars, fetchVars, aggVars, fnVars>>

\* AppendRow when append_row returns.
AppendRowReturns ==
    /\ AppendRow
    /\ built'[Len(built')].outcome \in {"appended", "skipped"}

\* WriteBack when the six update_cell calls return.
WriteBackReturns ==
    /\ WriteBack
    /\ faults' = faults

---------------------------------------------------------------------------
(* Specifications *)

Init == RBInit /\ FetchIdle /\ AggIdle /\ FnIdle /\ AuditIdle

Next == PublisherGroup \/ GalleryGroup \/ AppendRow

Spec == Init /\ [][Next]_vars

InitFetch == FetchInit /\ RBIdle /\ AggIdle /\ FnIdle /\ AuditIdle

NextFetch ==
    \/ SafeRequestAttempt
    \/ SafeRequestGiveUp
    \/ FetchCycleStart
    \/ FetchCycleFinish
    \/ FetchGiveUp

SpecFetch == InitFetch /\ [][NextFetch]_vars

InitAgg == AggInit /\ RBIdle /\ FetchIdle /\ FnIdle /\ AuditIdle

NextAgg ==
    \/ CompanyHeraldo
    \/ CompanyTelevisa
    \/ CompanyMilenio
    \/ CompanyUniversal
    \/ CompanyAs
    \/ CompanyInfobae
    \/ CompanyNyTimes
    \/ CompanyTerra
    \/ CompanyTvAzteca
    \/ GalleryPrefetch

SpecAgg == InitAgg /\ [][NextAgg]_vars

InitFn == FnInit /\ RBIdle /\ FetchIdle /\ AggIdle /\ AuditIdle

NextFn == CallGetLatestSitemap \/ CallExtractUrlsFromXml

SpecFn == InitFn /\ [][NextFn]_vars

InitAudit == AuditInit /\ RBIdle /\ FetchIdle /\ AggIdle /\ FnIdle

NextAudit ==
    \/ SkipGroup
    \/ CallRunLighthouse
    \/ LighthouseAttempt
    \/ LighthouseGiveUp
    \/ WriteBack

SpecAudit == InitAudit /\ [][NextAudit]_vars

\* Either phase that talks to the store, each from any of its starting
\* states: the Row Builder over a registry, or the audit over a snapshot.
InitPhases == Init \/ InitAudit

NextPhases ==
    \/ PublisherGroup
    \/ GalleryGroup
    \/ AppendRow
    \/ SkipGroup
    \/ CallRunLighthouse
    \/ LighthouseAttempt
    \/ LighthouseGiveUp
    \/ WriteBack

SpecPhases == InitPhases /\ [][NextPhases]_vars

\* One run whose store calls return: the Row Builder over a registry, then
\* the audit of the rows it appended.  The run is one thread of blocking
\* calls: a step that can be taken is taken.
InitRun ==
    /\ Init
    /\ TotalLen([c \in 1..NumCompanies |-> companies[c][1] \o companies[c][2]])
          + TotalLen(gallery_urls_map) <= MaxRunTotal

NextRun ==
    \/ PublisherGroup
    \/ GalleryGroup
    \/ AppendRowReturns
    \/ GetAllValues
    \/ EnterLoop
    \/ SkipGroup
    \/ CallRunLighthouse
    \/ LighthouseAttempt
    \/ LighthouseGiveUp
    \/ WriteBackReturns

SpecRun == InitRun /\ [][NextRun]_vars /\ WF_vars(NextRun)

---------------------------------------------------------------------------
(* Properties of the Row Builder, checked under Spec *)

NumSources == NumCompanies + NumGalleries

\* The g-th 9-cell group of a row, and whether a row holds a non-blank group there.
GroupAt(cells, g) == SubSeq(cells, 9 * g - 8, 9 * g)

NonBlankAt(cells, g) == 9 * g <= Len(cells) /\ GroupAt(cells, g) # Blank

\* Every row of the run so far: the finished ones, then the one under
\* construction.
AllRows == [r \in 1..Len(built) |-> built[r].cells] \o <<row>>

\* The (row, group, url) of every non-blank group of the run so far.
EmittedPlaces ==
    LET rows == AllRows
    IN  {<<p[1], p[2], rows[p[1]][9 * p[2] - 6]>> :
            p \in {q \in (1..Len(rows)) \X (1..NumSources) : NonBlankAt(rows[q[1]], q[2])}}

\* The registry sequences, in slot order.
RegistrySeqs ==
    [s \in 1..NumSlots |->
        IF s <= 2 * NumCompanies
        THEN companies[(s + 1) \div 2][IF s % 2 = 1 THEN 1 ELSE 2]
        ELSE gallery_urls_map[s - 2 * NumCompanies]]

Elems(seq) == {seq[j] : j \in 1..Len(seq)}

NoRepeatedUrl(seq) == Cardinality(Elems(seq)) = Len(seq)

\* C1: within one run no URL is placed in more than one non-blank group,
\* over all rows of both content-type passes, whatever the registry holds.
C1_NoUrlInTwoGroups ==
    LET places == EmittedPlaces
    IN  \A p, q \in places : p[3] = q[3] => p = q

\* C1 witness: the run is over, one URL stood in three registry sequences
\* (several publishers, both lists of a publisher, or a gallery list), and
\* it was emitted.
C1_Witness ==
    /\ rb_pc = "done"
    /\ \E u \in URLS :
          /\ Cardinality({s \in 1..NumSlots : u \in Elems(RegistrySeqs[s])}) >= 3
          /\ \E p \in EmittedPlaces : p[3] = u

\* C2: a row is passed to append_row only if one of its groups is non-blank;
\* a row of blank groups only is never passed.
C2_BlankRowNeverAppended ==
    \A r \in 1..Len(built) :
        built[r].offered => \E g \in 1..NumSources : NonBlankAt(built[r].cells, g)

\* C2 witness: the run built a row of blank groups only and did not offer
\* it, and offered another row.
C2_Witness ==
    /\ rb_pc = "done"
    /\ \E r \in 1..Len(built) :
          /\ ~built[r].offered
          /\ built[r].cells = [j \in 1..(9 * NumSources) |-> ""]
    /\ \E r \in 1..Len(built) : built[r].offered

\* The k-th group of a row of pass content_type belongs to the k-th source:
\* it is blank, or {today, type, url, six empty cells} with url taken from
\* that source's sequence (publishers first, then gallery sources).
GroupOfSource(group, g, content_type) ==
    \/ group = Blank
    \/ IF g <= NumCompanies
       THEN \E u \in Elems(companies[g][IF content_type = "nota" THEN 1 ELSE 2]) :
               group = <<today, content_type, u, "", "", "", "", "", "">>
       ELSE \E u \in Elems(gallery_urls_map[g - NumCompanies]) :
               group = <<today, "img", u, "", "", "", "", "", "">>

\* C3: every row passed to append_row has 9 x (publishers + gallery sources)
\* cells, and its k-th group is the k-th source's, emitted or blank.
C3_StableLayout ==
    \A r \in 1..Len(built) :
        built[r].offered =>
            /\ Len(built[r].cells) = 9 * NumSources
            /\ \A g \in 1..NumSources :
                  GroupOfSource(GroupAt(built[r].cells, g), g, built[r].content_type)

\* C3 witness: an offered row holds a blank group before an emitted
\* publisher group and an emitted gallery group.
C3_Witness ==
    \E r \in 1..Len(built) :
        /\ built[r].offered
        /\ ~NonBlankAt(built[r].cells, 1)
        /\ NonBlankAt(built[r].cells, NumCompanies)
        /\ NonBlankAt(built[r].cells, NumCompanies + 1)

\* The sequence source src offers in the pass of content type t: a
\* publisher's article or video sequence, or a gallery sequence.
SeqOfSource(src, t) ==
    IF src <= NumCompanies
    THEN companies[src][IF t = "nota" THEN 1 ELSE 2]
    ELSE gallery_urls_map[src - NumCompanies]

\* The content-type cell of a group source src emits in the pass of type t.
TypeOfSource(src, t) == IF src <= NumCompanies THEN t ELSE "img"

\* The source whose group the next step adds to the row.
CurrentSource == IF rb_pc = "companies" THEN k ELSE NumCompanies + k

\* The step offers u under the seen-check: emitted and marked seen when
\* unseen, a blank group otherwise.
OffersUnderSeenCheck(u, t) ==
    IF u \notin used_urls
    THEN /\ row' = row \o <<today, t, u, "", "", "", "", "", "">>
         /\ used_urls' = used_urls \cup {u}
    ELSE /\ row' = row \o <<"", "", "", "", "", "", "", "", "">>
         /\ used_urls' = used_urls

\* What a step of the Row Builder that adds a group does: at row position i
\* a source with a sequence of length n offers the i-th element when i < n
\* and the last element again when 0 < n <= i; a source with an empty
\* sequence gets a blank group.
RepeatLastPolicyStep ==
    rb_pc \in {"companies", "galleries"} =>
        LET urls == SeqOfSource(CurrentSource, content_types[ct])
            t == TypeOfSource(CurrentSource, content_types[ct])
        IN  IF Len(urls) = 0
            THEN /\ row' = row \o <<"", "", "", "", "", "", "", "", "">>
                 /\ used_urls' = used_urls
            ELSE IF i < Len(urls)
            THEN OffersUnderSeenCheck(urls[i + 1], t)
            ELSE OffersUnderSeenCheck(urls[Len(urls)], t)

\* C13: past the end of a non-empty sequence the Row Builder offers the
\* last element again under the same seen-check as for positions in range
\* (emitted and marked seen if unseen, a blank group otherwise); an empty
\* sequence gives a blank group; publishers and gallery sources alike, in
\* every row of the run.
C13_RepeatLastPolicy == [][RepeatLastPolicyStep]_vars

\* C13 witness: the run is over; at row position 1 the first publisher (one
\* article, offered at row 0) and the gallery source (one URL) were past
\* the end of their sequences, and the last publisher had no article.
C13_Witness ==
    /\ rb_pc = "done"
    /\ Len(companies[1][1]) = 1
    /\ Len(gallery_urls_map[1]) = 1
    /\ Len(companies[NumCompanies][1]) = 0
    /\ built[1].i = 0 /\ NonBlankAt(built[1].cells, 1)
    /\ built[2].i = 1 /\ built[2].content_type = "nota"
    /\ Len(built[2].cells) = 9 * NumSources

\* C19: at most max_rows rows are passed to append_row in each content-type
\* pass, at most 2 x max_rows in a run, and a row holds one group per
\* source, however long the sequences are.
C19_BoundedRows ==
    /\ \A t \in Elems(content_types) :
          Cardinality({r \in 1..Len(built) : built[r].offered /\ built[r].content_type = t})
              <= max_rows
    /\ Cardinality({r \in 1..Len(built) : built[r].offered}) <= 2 * max_rows
    /\ \A r \in 1..Len(built) : Len(built[r].cells) = 9 * NumSources
    /\ Len(row) <= 9 * NumSources

\* C19 witness: the run is over, a sequence was longer than max_rows, and
\* the article pass passed max_rows rows to append_row.
C19_Witness ==
    /\ rb_pc = "done"
    /\ \E s \in 1..NumSlots : Len(RegistrySeqs[s]) > max_rows /\ NoRepeatedUrl(RegistrySeqs[s])
    /\ Cardinality({r \in 1..Len(built) : built[r].offered /\ built[r].content_type = "nota"})
          = max_rows

EmittedUrls == {p[3] : p \in EmittedPlaces}

\* The gallery groups of the rows of the video pass are blank.
GalleryBlankInVideoPass ==
    \A r \in 1..Len(built) :
        built[r].content_type = "video" =>
            \A src \in (NumCompanies + 1)..NumSources : ~NonBlankAt(built[r].cells, src)

\* C21 as stated: the gallery groups of every row of the video pass are
\* blank, and a URL that stands at a position >= max_rows of a gallery
\* sequence is in no group of the run.
C21_GalleryFirstPassOnly ==
    /\ GalleryBlankInVideoPass
    /\ \A gs \in 1..NumGalleries : \A pos \in (max_rows + 1)..Len(gallery_urls_map[gs]) :
          gallery_urls_map[gs][pos] \notin EmittedUrls

\* C21 as amended: the gallery groups of every row of the video pass are
\* blank; a gallery group at row position i holds the i-th URL of its
\* sequence, so no position >= max_rows is ever the origin of a group; and
\* a URL is in a group of the run only if it stands at a position below
\* max_rows of some sequence of the registry.
C21_GalleryBelowMaxRows ==
    /\ GalleryBlankInVideoPass
    /\ \A r \in 1..Len(built) : \A gs \in 1..NumGalleries :
          NonBlankAt(built[r].cells, NumCompanies + gs) =>
              /\ built[r].i < max_rows
              /\ built[r].i < Len(gallery_urls_map[gs])
              /\ GroupAt(built[r].cells, NumCompanies + gs)[3] = gallery_urls_map[gs][built[r].i + 1]
    /\ \A u \in EmittedUrls :
          \E s \in 1..NumSlots : \E pos \in 1..max_rows :
              pos <= Len(RegistrySeqs[s]) /\ RegistrySeqs[s][pos] = u

\* C21 witness: the run is over; the gallery sequence is longer than
\* max_rows, its first max_rows URLs were emitted in the article pass, the
\* URL after them was not emitted, and the rows of the video pass were built.
C21_Witness ==
    /\ rb_pc = "done"
    /\ Len(gallery_urls_map[1]) > max_rows
    /\ \A pos \in 1..max_rows :
          /\ built[pos].content_type = "nota"
          /\ NonBlankAt(built[pos].cells, NumCompanies + 1)
    /\ gallery_urls_map[1][max_rows + 1] \notin EmittedUrls
    /\ built[Len(built)].content_type = "video"

---------------------------------------------------------------------------
(* Properties of the HTTP helpers, checked under SpecFetch *)

\* C4: safe_request makes at most `retries` attempts; a 200 response is the
\* last attempt of its call and is what the call returns; a call that
\* returns a response returns the one 200 response of its log.
C4_FirstSuccessReturned ==
    /\ Len(sr_log) <= sr_retries
    /\ \A j \in 1..Len(sr_log) :
          IsOk(sr_log[j]) =>
              /\ j = Len(sr_log)
              /\ sr_pc \in {"returned", "idle"}
              /\ sr_result = sr_log[j]
    /\ (sr_pc = "returned" /\ sr_result # None) =>
          /\ Len(sr_log) > 0
          /\ sr_result = sr_log[Len(sr_log)]
          /\ IsOk(sr_result)

\* C4 witness: retries = 3, the statuses were 500, 500, 200 and the third
\* response was returned after exactly 3 attempts.
C4_Witness ==
    /\ call = "safe_request"
    /\ retries = 3
    /\ sr_pc = "returned"
    /\ Len(sr_log) = 3
    /\ sr_log[1].kind = "response" /\ sr_log[1].status_code = 500
    /\ sr_log[2].kind = "response" /\ sr_log[2].status_code = 500
    /\ IsOk(sr_log[3])
    /\ sr_result = sr_log[3]

\* C5: safe_request never raises; every failed attempt, an exception
\* included, is one attempt of the `retries`, and a call whose attempts all
\* failed returns None after exactly `retries` of them.
C5_NeverRaises ==
    /\ sr_pc # "raised"
    /\ (sr_pc = "returned" /\ \A j \in 1..Len(sr_log) : ~IsOk(sr_log[j])) =>
          /\ sr_result = None
          /\ Len(sr_log) = sr_retries
    /\ (sr_pc = "running" /\ Len(sr_log) > 0) => ~IsOk(sr_log[Len(sr_log)])

\* C5 witness: a call with retries = 3 met an exception, a non-200 status
\* and an exception again, and returned None.
C5_Witness ==
    /\ call = "safe_request"
    /\ retries = 3
    /\ sr_pc = "returned"
    /\ sr_result = None
    /\ Len(sr_log) = 3
    /\ sr_log[1].kind = "exception"
    /\ sr_log[2].kind = "response"
    /\ sr_log[3].kind = "exception"

\* Cycle c of fetch_xml_root issued request c of the call.
FetchFailed(c) == ~IsOk(http_log[c])

ParseFailed(c) ==
    /\ IsOk(http_log[c])
    /\ fx_cycles[c].data # None
    /\ fx_cycles[c].root = None

CycleSucceeded(c) ==
    /\ IsOk(http_log[c])
    /\ fx_cycles[c].data # None
    /\ fx_cycles[c].root # None

\* C6: fetch_xml_root runs at most `retries` cycles of one HTTP request
\* each, returns the root of the first cycle whose fetch and parse both
\* succeed, and returns None (it does not raise) once `retries` cycles have
\* failed by fetch failure or parse failure.
C6_WholeCycleRetried ==
    call = "fetch_xml_root" =>
        /\ Len(fx_cycles) <= retries
        /\ \A c \in 1..Len(fx_cycles) : fx_cycles[c].requests = 1
        /\ Len(http_log) = Len(fx_cycles) + (IF fx_pc = "fetching" THEN Len(sr_log) ELSE 0)
        /\ \A c \in 1..Len(fx_cycles) :
              CycleSucceeded(c) =>
                  /\ c = Len(fx_cycles)
                  /\ fx_pc = "returned"
                  /\ fx_result = fx_cycles[c].root
                  /\ fx_result = ParseXml(fx_cycles[c].data)
        /\ (fx_pc = "returned" /\ fx_result # None) =>
              /\ Len(fx_cycles) > 0
              /\ CycleSucceeded(Len(fx_cycles))
        /\ (fx_pc = "returned" /\ fx_result = None) =>
              /\ Len(fx_cycles) = retries
              /\ \A c \in 1..Len(fx_cycles) : FetchFailed(c) \/ ParseFailed(c)
        /\ fx_pc = "raised" =>
              ~(FetchFailed(Len(fx_cycles)) \/ ParseFailed(Len(fx_cycles)))

\* C6 witness: with retries = 3 the first cycle failed to fetch, the second
\* fetched bytes that did not parse, the third fetched a gzipped document
\* that parsed, and its root was returned.
C6_Witness ==
    /\ call = "fetch_xml_root"
    /\ retries = 3
    /\ fx_pc = "returned"
    /\ Len(fx_cycles) = 3
    /\ Len(http_log) = 3
    /\ FetchFailed(1)
    /\ ParseFailed(2)
    /\ CycleSucceeded(3)
    /\ http_log[3].content.enc = "gzip"
    /\ fx_result # None

\* C7: whenever decompression of a fetched payload fails, whatever the
\* failure, the parser is given the fetched bytes unchanged and
\* fetch_xml_root does not raise.
C7_GzipFallback ==
    /\ fx_pc # "raised"
    /\ \A c \in 1..Len(fx_cycles) :
          (IsOk(http_log[c]) /\ Gunzip(http_log[c].content).kind = "raise") =>
              fx_cycles[c].data = http_log[c].content

---------------------------------------------------------------------------
(* Properties of the aggregation, checked under SpecAgg *)

\* C8: no adapter call raises, whatever the network serves (no response,
\* a malformed payload, an entry whose loc or link has no text), and a
\* failing publisher never keeps the remaining registry entries from being
\* built.
C8_FailureContained ==
    /\ agg_error = ""
    /\ agg_pc # "aborted"

NoRepeat(seq) == \A m, n \in 1..Len(seq) : seq[m] = seq[n] => m = n

\* C9: no URL sequence stored in the registry (the article and the video
\* sequence of a publisher, a gallery sequence) holds a URL more than once.
C9_NoDuplicateInSequence ==
    /\ \A c \in 1..Len(companies) : NoRepeat(companies[c][1]) /\ NoRepeat(companies[c][2])
    /\ \A g \in 1..Len(gallery_urls_map) : NoRepeat(gallery_urls_map[g])

\* C10: a URL is in one category only: the article and the video sequence
\* of a publisher are disjoint, and so are the normal and the gallery
\* sequence extract_gallery_urls returns.
C10_OneCategory ==
    /\ \A c \in 1..Len(companies) : Elems(companies[c][1]) \cap Elems(companies[c][2]) = {}
    /\ Elems(gal_result.nota) \cap Elems(gal_result.video) = {}

---------------------------------------------------------------------------
(* Properties of the generic extractors, checked under SpecFn *)

\* The call is over, by return or by exception.
FnOver(fn) == fn_call # None /\ fn_call.fn = fn /\ fn_pc \in {"returned", "raised"}

\* The <sitemap> entries that have a loc and a lastmod, as (loc, lastmod)
\* pairs of trimmed texts; an element without text is lacking.
LocLastmodPairs(doc) ==
    LET has == SelectSeq(doc, LAMBDA e : /\ e.loc # <<>> /\ e.loc[1] # <<>>
                                         /\ e.lastmod # <<>> /\ e.lastmod[1] # <<>>)
    IN  [j \in 1..Len(has) |-> <<Strip(has[j].loc[1][1]), Strip(has[j].lastmod[1][1])>>]

\* opt is None when there is no pair, else the loc of a pair whose lastmod
\* no pair exceeds in lexicographic order.
IsLatestOf(opt, pairs) ==
    IF pairs = <<>> THEN opt = <<>>
    ELSE \E j \in 1..Len(pairs) :
            /\ opt = <<pairs[j][1]>>
            /\ \A m \in 1..Len(pairs) : ~StrLess(pairs[j][2], pairs[m][2])

\* The index of the example: (A, 2024-01-01), (B, 2024-03-05), (C, 2023-12-31).
ExampleIndex ==
    << [loc |-> << << <<"A">> >> >>,
        lastmod |-> << << <<"2", "0", "2", "4", "-", "0", "1", "-", "0", "1">> >> >>],
       [loc |-> << << <<"B">> >> >>,
        lastmod |-> << << <<"2", "0", "2", "4", "-", "0", "3", "-", "0", "5">> >> >>],
       [loc |-> << << <<"C">> >> >>,
        lastmod |-> << << <<"2", "0", "2", "3", "-", "1", "2", "-", "3", "1">> >> >>] >>

\* C11: get_latest_sitemap returns the loc of an entry whose lastmod is
\* maximal in lexicographic order among the entries that have a loc and a
\* lastmod; it returns None when no entry has both or the index cannot be
\* fetched; the index of the example yields B.
C11_LatestSitemap ==
    FnOver("get_latest_sitemap") =>
        /\ fn_result.ok
        /\ IsLatestOf(fn_result.val, LocLastmodPairs(fn_call.fx.doc))
        /\ fn_call.fx.doc = ExampleIndex => fn_result.val = << <<"B">> >>

\* What holds of get_latest_sitemap whenever it returns: the value C11
\* describes.
LatestWhenReturned ==
    (FnOver("get_latest_sitemap") /\ fn_pc = "returned") =>
        /\ IsLatestOf(fn_result.val, LocLastmodPairs(fn_call.fx.doc))
        /\ fn_call.fx.doc = ExampleIndex => fn_result.val = << <<"B">> >>

\* The example has been run.
ExampleIndexReturned ==
    FnOver("get_latest_sitemap") /\ fn_pc = "returned" /\ fn_call.fx.doc = ExampleIndex

\* The trimmed loc texts of a urlset, in document order.
LocTexts(doc) ==
    LET has == SelectSeq(doc, LAMBDA e : e.loc # <<>>)
    IN  [j \in 1..Len(has) |-> Strip(has[j].loc[1])]

\* Whether the filters keep a URL.
Kept(u, include, exclude) ==
    /\ include # NoFilter => \E j \in 1..Len(include) : Contains(u, include[j])
    /\ exclude # NoFilter => \A j \in 1..Len(exclude) : ~Contains(u, exclude[j])

\* Position of the first occurrence of u in texts.
FirstAt(u, texts) == CHOOSE m \in 1..Len(texts) : texts[m] = u /\ \A n \in 1..(m - 1) : texts[n] # u

\* urls holds the kept texts, each once, in the order of their first
\* occurrences.
IsFilteredDedup(urls, texts, include, exclude) ==
    /\ NoRepeat(urls)
    /\ \A j \in 1..Len(urls) : urls[j] \in Elems(texts)
    /\ \A a, b \in 1..Len(urls) : a < b => FirstAt(urls[a], texts) < FirstAt(urls[b], texts)
    /\ \A u \in Elems(texts) : u \in Elems(urls) <=> Kept(u, include, exclude)

\* C12: for any urlset and any filters, extract_urls_from_xml returns the
\* loc texts of the document without repetition and in document order,
\* each at its first occurrence, keeping a URL iff it contains an include
\* substring (when include is given) and no exclude substring (when exclude
\* is given).
C12_FilteredDedup ==
    FnOver("extract_urls_from_xml") =>
        /\ fn_result.ok
        /\ IsFilteredDedup(fn_result.val, LocTexts(fn_call.fx.doc),
                           fn_call.include, fn_call.exclude)

\* What holds of extract_urls_from_xml whenever it returns: the value C12
\* describes.
FilteredDedupWhenReturned ==
    (FnOver("extract_urls_from_xml") /\ fn_pc = "returned") =>
        IsFilteredDedup(fn_result.val, LocTexts(fn_call.fx.doc),
                        fn_call.include, fn_call.exclude)

\* A call returned a text once that the document holds twice, after one
\* that a filter dropped.
FilteredDedupSeen ==
    /\ FnOver("extract_urls_from_xml") /\ fn_pc = "returned"
    /\ Len(fn_result.val) = 1
    /\ Len(fn_call.fx.doc) = 3
    /\ ~Kept(LocTexts(fn_call.fx.doc)[1], fn_call.include, fn_call.exclude)
    /\ LocTexts(fn_call.fx.doc)[2] = LocTexts(fn_call.fx.doc)[3]
    /\ fn_call.fx.doc[2] # fn_call.fx.doc[3]

---------------------------------------------------------------------------
(* Properties of the audit phase, checked under SpecAudit *)

\* The groups of the snapshot: <<row (1-based), group (0-based)>>.
SnapshotGroups ==
    UNION {{<<r, gi>> : gi \in 0..(Groups(all_rows[r]) - 1)} : r \in 1..Len(all_rows)}

\* The loop is past group gi of row r.
Passed(r, gi) == au_pc = "done" \/ r < row_idx \/ (r = row_idx /\ gi < grp)

\* The tool invocations made for group gi of row r, and whether there is one.
InvocationsOf(r, gi) ==
    SelectSeq(lh_log, LAMBDA e : e.ev = "lighthouse" /\ e.row = r /\ e.base = 9 * gi)

Audited(r, gi) ==
    \E j \in 1..Len(lh_log) :
        lh_log[j].ev = "lighthouse" /\ lh_log[j].row = r /\ lh_log[j].base = 9 * gi

\* The last tool invocation of the phase so far (None before the first).
LastInvocation ==
    LET all == SelectSeq(lh_log, LAMBDA e : e.ev = "lighthouse")
    IN  IF all = <<>> THEN None ELSE all[Len(all)]

\* The check of the group succeeded: an invocation gave metrics.
CheckSucceeded(r, gi) ==
    \E j \in 1..Len(lh_log) :
        /\ lh_log[j].ev = "lighthouse" /\ lh_log[j].row = r /\ lh_log[j].base = 9 * gi
        /\ lh_log[j].ok

\* The update_cell calls on the cells of group gi of row r, in order.
UpdatesOf(r, gi) ==
    SelectSeq(updates, LAMBDA u : u.row = r /\ u.col \in (9 * gi + 1)..(9 * gi + 9))

\* The cells of a group as the loop reads them.
TypeCell(r, gi) == lower(strip(all_rows[r][9 * gi + 2]))
UrlCell(r, gi) == strip(all_rows[r][9 * gi + 3])
ScoreCell(r, gi) == strip(all_rows[r][9 * gi + 4])

\* C14 as stated: a group of the snapshot is audited iff its content-type
\* is nota, video or img, its URL is non-empty and its score cell is empty;
\* every group of every row is examined.
C14_AuditedIffNonEmptyUrl ==
    \A p \in SnapshotGroups :
        LET open == /\ TypeCell(p[1], p[2]) \in {"nota", "video", "img"}
                    /\ UrlCell(p[1], p[2]) # ""
                    /\ ScoreCell(p[1], p[2]) = ""
        IN  /\ Audited(p[1], p[2]) => open
            /\ (Passed(p[1], p[2]) /\ open) => Audited(p[1], p[2])

\* C14 as amended: a group of the snapshot is audited iff its content-type
\* is nota, video or img, its URL starts with "http" and its score cell is
\* empty (cells trimmed, the content-type lower-cased); a group with a
\* filled score cell is never audited; every group of every row, of
\* len(row) // 9, is examined.
C14_AuditedIffHttpUrl ==
    \A p \in SnapshotGroups :
        LET open == /\ TypeCell(p[1], p[2]) \in {"nota", "video", "img"}
                    /\ startswith_http(UrlCell(p[1], p[2]))
                    /\ ScoreCell(p[1], p[2]) = ""
        IN  /\ Audited(p[1], p[2]) => open
            /\ (Passed(p[1], p[2]) /\ open) => Audited(p[1], p[2])

\* C14 witness: the phase is over; in a row of two groups the first had a
\* score and was not audited, the second was audited; the trailing cell
\* past the last whole group was not read.
C14_Witness ==
    /\ au_pc = "done"
    /\ \E r \in 1..Len(all_rows) :
          /\ Len(all_rows[r]) = 19
          /\ all_rows[r][4] = "87"
          /\ ~Audited(r, 0)
          /\ Audited(r, 1)

\* C15: run_lighthouse invokes the tool at most `retries` times for a group
\* and not again after a success; when every attempt failed it returns
\* None, no cell of the group is written, and the loop goes on: at the end
\* every group the condition accepts has been audited.
C15_BoundedAttempts ==
    /\ au_pc \in {"scan", "lighthouse", "write", "done"}
    /\ \A p \in SnapshotGroups :
          LET inv == InvocationsOf(p[1], p[2])
          IN  /\ Len(inv) <= lh_retries
              /\ \A j \in 1..(Len(inv) - 1) : ~inv[j].ok
              /\ (Passed(p[1], p[2]) /\ Audited(p[1], p[2]) /\ ~CheckSucceeded(p[1], p[2])) =>
                    /\ Len(inv) = lh_retries
                    /\ UpdatesOf(p[1], p[2]) = <<>>
                    /\ LastInvocation = inv[Len(inv)] => metrics = None
              /\ (au_pc = "done" /\ IsCandidate(all_rows[p[1]], p[2])) => Audited(p[1], p[2])

\* C15 witness: the phase is over; every attempt for the first group
\* failed, and a later group was audited and written.
C15_Witness ==
    /\ au_pc = "done"
    /\ Len(InvocationsOf(1, 0)) = lh_retries
    /\ ~CheckSucceeded(1, 0)
    /\ \E p \in SnapshotGroups : p # <<1, 0>> /\ CheckSucceeded(p[1], p[2]) /\ UpdatesOf(p[1], p[2]) # <<>>

\* The write-back of a successful check as C16 describes it: score, CLS,
\* LCP, SI, TBT, FCP on the cells (r, base+4) ... (r, base+9), in that order.
SixWrites(r, gi) ==
    LET m == extract_metrics
        values == <<m.score, m.cls, m.lcp, m.si, m.tbt, m.fcp>>
    IN  [j \in 1..6 |-> [row |-> r, col |-> 9 * gi + 3 + j, value |-> values[j], ok |-> TRUE]]

\* The audit phase writes to no cell but the six metric cells of a group
\* whose check succeeded.
NoOtherCellWritten ==
    /\ \A n \in 1..Len(updates) :
          /\ updates[n].row \in 1..Len(all_rows)
          /\ updates[n].col \in 1..(9 * Groups(all_rows[updates[n].row]))
          /\ (updates[n].col - 1) % 9 >= 3
    /\ \A p \in SnapshotGroups :
          UpdatesOf(p[1], p[2]) # <<>> => CheckSucceeded(p[1], p[2])

\* C16 as stated: after a successful check of a group the six values are
\* written to its cells base+4 ... base+9 in order, and no other cell is
\* written.
C16_SixCellsWritten ==
    /\ NoOtherCellWritten
    /\ \A p \in SnapshotGroups :
          (Passed(p[1], p[2]) /\ CheckSucceeded(p[1], p[2])) =>
              UpdatesOf(p[1], p[2]) = SixWrites(p[1], p[2])

\* C16 as amended: after a successful check of a group the six values are
\* written to its cells base+4 ... base+9 in order, up to the first
\* update_cell call that raises (all six when none raises; no call is made
\* after one that raised), and no other cell is written.
C16_SixCellsInOrder ==
    /\ NoOtherCellWritten
    /\ \A p \in SnapshotGroups :
          (Passed(p[1], p[2]) /\ CheckSucceeded(p[1], p[2])) =>
              LET ups == UpdatesOf(p[1], p[2])
                  six == SixWrites(p[1], p[2])
              IN  /\ Len(ups) \in 1..6
                  /\ \A j \in 1..(Len(ups) - 1) : ups[j] = six[j]
                  /\ \/ ups[Len(ups)] = six[Len(ups)] /\ Len(ups) = 6
                     \/ ups[Len(ups)] = [six[Len(ups)] EXCEPT !.ok = FALSE]

\* C16 witness: the phase is over; the second group of a row got its six
\* values, the first group of the row was not audited and has no write.
C16_Witness ==
    /\ au_pc = "done"
    /\ \E r \in 1..Len(all_rows) :
          /\ Groups(all_rows[r]) = 2
          /\ ~Audited(r, 0)
          /\ UpdatesOf(r, 0) = <<>>
          /\ UpdatesOf(r, 1) = SixWrites(r, 1)

\* C17: a sleep stands between any two consecutive invocations of the
\* tool, be they two attempts for one URL or the checks of two groups: in
\* the log of invocations and sleeps, what follows an invocation is a sleep.
C17_SleepBetweenInvocations ==
    \A j \in 1..(Len(lh_log) - 1) :
        lh_log[j].ev = "lighthouse" => lh_log[j + 1].ev = "sleep"

\* C17 witness: the tool ran twice for one group (a failed attempt, the
\* retry pause, a second attempt) and then for another group (after the
\* throttle pause).
C17_Witness ==
    /\ Len(lh_log) >= 5
    /\ lh_log[1].ev = "lighthouse" /\ ~lh_log[1].ok
    /\ lh_log[2] = Sleep(lh_delay)
    /\ lh_log[3].ev = "lighthouse" /\ lh_log[3].ok /\ lh_log[3].base = lh_log[1].base
    /\ lh_log[4] = Sleep(throttle)
    /\ lh_log[5].ev = "lighthouse" /\ <<lh_log[5].row, lh_log[5].base>> # <<lh_log[3].row, lh_log[3].base>>

\* Cell c of row r was written by this run: an update_cell call on it
\* returned.
Written(r, c) ==
    \E j \in 1..Len(updates) :
        updates[j].row = r /\ updates[j].col = c /\ updates[j].ok

\* C22: write-back of a group is all-or-nothing: no group the loop is past
\* has its score cell written by this run while one of its CLS, LCP, SI,
\* TBT and FCP cells was not written, whichever update_cell calls fail.
C22_WriteBackAllOrNothing ==
    \A p \in SnapshotGroups :
        (Passed(p[1], p[2]) /\ Written(p[1], 9 * p[2] + 4)) =>
            \A c \in (9 * p[2] + 5)..(9 * p[2] + 9) : Written(p[1], c)

---------------------------------------------------------------------------
(* Store failures in either phase, checked under SpecPhases *)

\* The rows append_row accepted, in order.
AcceptedRows ==
    LET accepted == SelectSeq(built, LAMBDA b : b.outcome = "appended")
    IN  [r \in 1..Len(accepted) |-> accepted[r].cells]

\* C18: an append_row that raises costs its row only: the exception does
\* not leave the row loop, the store holds the other offered rows, and every
\* row position of both content-type passes is still built and, if it has a
\* URL, offered; an update_cell that raises does not stop the audit: at the
\* end every group the loop accepts has been audited.
C18_StoreFailuresContained ==
    /\ rb_pc # "aborted"
    /\ sheet = AcceptedRows
    /\ \A r \in 1..Len(built) :
          /\ built[r].offered <=> \E src \in 1..NumSources : NonBlankAt(built[r].cells, src)
          /\ built[r].offered <=> built[r].outcome \in {"appended", "logged"}
    /\ rb_pc = "done" =>
          /\ Len(built) = max_rows * Len(content_types)
          /\ \A r \in 1..Len(built) :
                /\ built[r].content_type = content_types[((r - 1) \div max_rows) + 1]
                /\ built[r].i = (r - 1) % max_rows
    /\ au_pc \in {"idle", "scan", "lighthouse", "write", "done"}
    /\ au_pc = "done" =>
          \A p \in SnapshotGroups : IsCandidate(all_rows[p[1]], p[2]) => Audited(p[1], p[2])

\* C18 witness: the run is over; append_row raised for the first row, and a
\* row of the same pass and a row of the video pass were appended after it.
C18_Witness ==
    /\ rb_pc = "done"
    /\ built[1].outcome = "logged"
    /\ built[2].outcome = "appended"
    /\ \E r \in 1..Len(built) : built[r].content_type = "video" /\ built[r].outcome = "appended"
    /\ Len(sheet) = 2

\* An update_cell call raised for one group and a later group was audited
\* and written.
UpdateFailureThenAudit ==
    /\ au_pc = "done"
    /\ \E n \in 1..Len(updates) : \E p \in SnapshotGroups :
          /\ ~updates[n].ok
          /\ p[1] > updates[n].row \/ (p[1] = updates[n].row /\ 9 * p[2] >= updates[n].col)
          /\ UpdatesOf(p[1], p[2]) = SixWrites(p[1], p[2])


---------------------------------------------------------------------------
(* Properties of the whole run, checked under SpecRun *)

\* The groups this run emitted and appended: <<row of the store, source>>.
AppendedGroups ==
    {p \in (1..Len(sheet)) \X (1..NumSources) : NonBlankAt(sheet[p[1]], p[2])}

\* The audit phase handled group src of row r: its six metric cells were
\* written, or the check was attempted `retries` times and failed each time.
Handled(r, src) ==
    \/ UpdatesOf(r, src - 1) = SixWrites(r, src - 1)
    \/ /\ UpdatesOf(r, src - 1) = <<>>
       /\ Len(InvocationsOf(r, src - 1)) = lh_retries
       /\ ~CheckSucceeded(r, src - 1)

\* The audit phase does not start before the last row of both passes has
\* been built and, if it has a URL, offered to the store.
AuditAfterLastRow ==
    au_pc # "idle" => rb_pc = "done" /\ Len(built) = max_rows * Len(content_types)

EveryGroupHandled ==
    au_pc = "done" => \A p \in AppendedGroups : Handled(p[1], p[2])

\* The group's URL starts with "http" and the group is one of the
\* len(row) // 9 groups of its row in the snapshot.
InSnapshotHttp(r, src) ==
    /\ startswith_http(sheet[r][9 * src - 6])
    /\ src <= Groups(all_rows[r])

HttpGroupsHandled ==
    au_pc = "done" =>
        \A p \in AppendedGroups :
            /\ InSnapshotHttp(p[1], p[2]) => Handled(p[1], p[2])
            /\ ~InSnapshotHttp(p[1], p[2]) => UpdatesOf(p[1], p[2] - 1) = <<>> /\ ~Audited(p[1], p[2] - 1)

===========================================================================
